---- MODULE Spec2Model ----
(***************************************************************************)
(* Minerva RSS pipeline (src/main.py) and the services it drives: the feed  *)
(* fetcher, the article processor (pre-filter), the Google Sheet sink and   *)
(* the Supabase sink; and the markdown exporter, which main does not call.  *)
(*                                                                          *)
(* A url is a sequence of one-character strings, so that str.strip() is a   *)
(* real conversion.  An exception message is a sequence of fragments, so    *)
(* that the substring tests of the duplicate-key handler are real tests.    *)
(* A body text (summary, full content) is its number of characters; titles, *)
(* domains and dates of the markdown exporter are sequences of characters.  *)
(***************************************************************************)
EXTENDS Integers, Sequences, FiniteSets, TLC

\* ------------------------------------------------------------------ bounds
MaxFeeds == 2      \* feeds in the configuration CSV
MaxRuns  == 2      \* runs of main in one behaviour
MaxLen   == 2      \* length of the lists the filter specification draws

\* The database read is limited to the 1000 most recent rows
\* (supabase_service.py line 42); the model scales the window down so that a
\* table can outgrow it.
ReadLimit == 1

\* ------------------------------------------------------------- text helpers
Space == " "

RECURSIVE LStrip(_)
LStrip(s) == IF s # <<>> /\ Head(s) = Space THEN LStrip(Tail(s)) ELSE s

RECURSIVE RStrip(_)
RStrip(s) ==
    IF s # <<>> /\ s[Len(s)] = Space THEN RStrip(SubSeq(s, 1, Len(s) - 1)) ELSE s

\* str.strip()
Strip(s) == RStrip(LStrip(s))

Range(s) == {s[i] : i \in 1..Len(s)}

SeqsUpTo(S, n) == UNION {[1..k -> S] : k \in 0..n}

\* ---------------------------------------------------------------- universe
UA   == <<"a">>
UB   == <<"b">>
UBsp == <<"b", " ">>
USpA == <<" ", "a">>

\* Python's None where a text (a number of characters) is expected
None == -1

\* bool(text) for a text or None
Truthy(text) == text > 0

\* what a GET of an entry's link gives: <<>> when the request or the
\* extraction raises, <<n>> for a page whose extracted markdown has n
\* characters once stripped
PageFails == <<>>

UT == <<"t">>

\* the entries of the feeds: title and link as they stand in the feed
\* (rss_fetcher.py strips them), the published date of the article, the
\* length of its cleaned summary and the page behind its link
EntryA == [title |-> UT, link |-> UA, published_date |-> 1, summary |-> 100,
           page |-> <<900>>]
EntryB == [title |-> UT, link |-> UBsp, published_date |-> 2, summary |-> 900,
           page |-> PageFails]
Entries == {EntryA, EntryB}

\* a feed yields nothing or one entry: the size of a batch is bounded by the
\* number of feeds.  The feed of the first entry asks for full content.
Feeds ==
    {[extract_articles |-> "false", entries |-> <<>>],
     [extract_articles |-> "true",  entries |-> <<EntryA>>],
     [extract_articles |-> "false", entries |-> <<EntryB>>]}


\* the 12-column header of the sheet, reduced to the columns the pipeline
\* reads back
Headers == <<"url", "has_full_content">>
UrlCol  == 1
HasFullContentCol == 2

\* ------------------------------------------------------------- rss_fetcher
\* RSSFetcher._extract_full_content: any error is logged and gives None.
_extract_full_content(page) == IF page = PageFails THEN None ELSE page[1]

\* _parse_entry lines 104-106
full_content_of(page, extract_full) ==
    IF extract_full THEN _extract_full_content(page) ELSE None

\* the error of the page request leaves _extract_full_content and is caught
\* by the handler of _parse_feed, which drops the entry (mutation of
\* _parse_entry)
_parse_entry_drops_unextracted(entry, extract_full) ==
    IF Strip(entry.title) = <<>> \/ Strip(entry.link) = <<>> THEN <<>>
    ELSE IF extract_full /\ entry.page = PageFails THEN <<>>
    ELSE << [title |-> Strip(entry.title),
             url |-> Strip(entry.link),
             summary |-> entry.summary,
             full_content |-> full_content_of(entry.page, extract_full),
             published_date |-> entry.published_date] >>

\* RSSFetcher._parse_entry: title and link are stripped; an entry without
\* one of them is dropped (None).
_parse_entry(entry, extract_full) ==
    LET title == Strip(entry.title)
        link == Strip(entry.link)
    IN  IF title = <<>> \/ link = <<>> THEN <<>>
        ELSE << [title |-> title,
                 url |-> link,
                 summary |-> entry.summary,
                 full_content |-> full_content_of(entry.page, extract_full),
                 published_date |-> entry.published_date] >>

\* RSSFetcher._parse_feed: the articles of the entries, in entry order.
RECURSIVE _parse_feed(_, _)
_parse_feed(entries, extract_full) ==
    IF entries = <<>> THEN <<>>
    ELSE _parse_entry(Head(entries), extract_full)
            \o _parse_feed(Tail(entries), extract_full)

\* feed_config.get("extract_articles", "false").lower() == "true"
extract_articles(feed_config) ==
    feed_config.extract_articles \in {"true", "True", "TRUE"}

\* RSSFetcher.fetch_feeds: feeds are parsed one after the other.  The log
\* holds what the loop does that can be seen from outside: the fetch of
\* feed i, the one-second sleep after it, the error logged for it.  A feed
\* whose parse raises (its index is in failed) adds nothing, and the loop
\* goes to the next feed from the handler.
RECURSIVE fetch_loop(_, _, _, _)
fetch_loop(feed_urls, failed, i, acc) ==
    IF i > Len(feed_urls) THEN acc
    ELSE LET fetching == Append(acc.log, [op |-> "fetch", feed |-> i])
         IN  IF i \in failed
             THEN fetch_loop(feed_urls, failed, i + 1,
                     [acc EXCEPT !.log = Append(fetching, [op |-> "error", feed |-> i])])
             ELSE fetch_loop(feed_urls, failed, i + 1,
                     [all_articles |->
                          acc.all_articles \o
                              _parse_feed(feed_urls[i].entries,
                                          extract_articles(feed_urls[i])),
                      log |-> Append(fetching, [op |-> "sleep", feed |-> i])])

NoFetch == [all_articles |-> <<>>, log |-> <<>>]

\* the articles of a feed that raised are kept (mutation of fetch_feeds)
fetch_feeds_keeps_failed(feed_urls, failed) ==
    fetch_loop(feed_urls, {}, 1, NoFetch).all_articles

fetch_feeds(feed_urls, failed) ==
    fetch_loop(feed_urls, failed, 1, NoFetch).all_articles

\* what fetch_feeds did, in order
fetch_feeds_log(feed_urls, failed) == fetch_loop(feed_urls, failed, 1, NoFetch).log

\* ------------------------------------------------------- article_processor
\* the records are read under a key they do not have (mutation of
\* load_existing_articles)
load_existing_articles_wrong_key(existing_articles) == {}

\* ArticleProcessor.load_existing_articles: the stripped urls of the records
\* that have a url.
load_existing_articles(existing_articles) ==
    {Strip(existing_articles[i].url) :
        i \in {j \in 1..Len(existing_articles) : existing_articles[j].url # <<>>}}

\* the test of the loop body of filter_new_articles, with the url compared
\* as it stands (mutation of IsExisting)
IsExistingRaw(urls, article) == article.url \in urls

\* the test of the loop body of filter_new_articles
IsExisting(urls, article) == Strip(article.url) \in urls

\* ArticleProcessor.filter_new_articles: one pass over the batch, each
\* article appended to one of the two lists.
RECURSIVE filter_loop(_, _, _, _)
filter_loop(urls, fetched, new_articles, existing_articles) ==
    IF fetched = <<>>
    THEN [new |-> new_articles, duplicate |-> existing_articles]
    ELSE IF IsExisting(urls, Head(fetched))
         THEN filter_loop(urls, Tail(fetched), new_articles,
                          Append(existing_articles, Head(fetched)))
         ELSE filter_loop(urls, Tail(fetched),
                          Append(new_articles, Head(fetched)), existing_articles)

filter_new_articles(urls, fetched) == filter_loop(urls, fetched, <<>>, <<>>)

\* summary[:500]
SummaryLimit == 500
Truncate(text, n) == IF text > n THEN n ELSE text

\* ArticleProcessor.prepare_for_storage: the fields of the sheet row.
prepare_for_storage(articles) ==
    [i \in 1..Len(articles) |->
        [url |-> articles[i].url,
         summary |-> Truncate(articles[i].summary, SummaryLimit),
         published_date |-> articles[i].published_date,
         has_full_content |->
             IF Truthy(articles[i].full_content) THEN "Yes" ELSE "No"]]

\* ----------------------------------------------------------- gsheet_service
EmptySheet == [headers |-> <<>>, rows |-> <<>>]

\* worksheet.get_all_records(): the rows under the header row, keyed by it
get_all_records(ws) ==
    IF ws.headers = <<>> THEN <<>>
    ELSE [i \in 1..Len(ws.rows) |->
            [url |-> ws.rows[i][UrlCol]]]

\* the read is tried again and succeeds (mutation of
\* gsheet_get_existing_articles)
gsheet_get_existing_articles_retry(ws, ok) == get_all_records(ws)

\* GSheetService.get_existing_articles: a failed read is logged and gives [].
gsheet_get_existing_articles(ws, ok) ==
    IF ok THEN get_all_records(ws) ELSE <<>>

SheetFaults == {"none", "open", "append_rows"}

\* the batch append reports success and stores nothing (mutation of
\* gsheet_add_articles)
gsheet_add_articles_drops(ws, articles, fault) ==
    [ws |-> ws, raised |-> FALSE,
     appended |-> [i \in 1..Len(articles) |-> <<articles[i].url, "Yes">>]]

\* GSheetService.add_articles: header row if the sheet has none, then one
\* batch append; any error is logged and raised again.
gsheet_add_articles(ws, articles, fault) ==
    IF articles = <<>> THEN [ws |-> ws, raised |-> FALSE, appended |-> <<>>]
    ELSE IF fault = "open" THEN [ws |-> ws, raised |-> TRUE, appended |-> <<>>]
    ELSE LET headers == IF ws.headers = <<>> THEN Headers ELSE ws.headers
             rows == [i \in 1..Len(articles) |->
                        <<articles[i].url,
                          IF articles[i].has_full_content # ""
                          THEN "Yes" ELSE "No">>]
         IN  IF fault = "append_rows"
             THEN [ws |-> [headers |-> headers, rows |-> ws.rows],
                   raised |-> TRUE, appended |-> <<>>]
             ELSE [ws |-> [headers |-> headers, rows |-> ws.rows \o rows],
                   raised |-> FALSE, appended |-> rows]

\* --------------------------------------------------------- supabase_service
\* str(e) of the exceptions an insert raises, as fragments of the text
UniqueViolationMsgs == {<<"23505", "duplicate key">>, <<"Duplicate Key">>, <<"23505">>}
OtherErrorMsgs == {<<"timeout">>}
NoError == <<>>

\* str.lower() on a message
Lower(msg) ==
    [i \in 1..Len(msg) |-> IF msg[i] = "Duplicate Key" THEN "duplicate key" ELSE msg[i]]

\* the handler's test, without lower() (mutation of IsDuplicateKeyError)
IsDuplicateKeyErrorCaseSensitive(msg) ==
    "duplicate key" \in Range(msg) \/ "23505" \in Range(msg)

\* the handler never recognises a duplicate (mutation of IsDuplicateKeyError)
IsDuplicateKeyErrorNever(msg) == FALSE

\* "duplicate key" in str(e).lower() or "23505" in str(e)
IsDuplicateKeyError(msg) ==
    "duplicate key" \in Range(Lower(msg)) \/ "23505" \in Range(msg)

TableUrls(tbl) == {r.url : r \in tbl}

\* select("*").order("published_date", desc=True).limit(N): the rows one
\* query may return; the order among rows of one date is the database's.
RecentRows(tbl) ==
    {w \in SUBSET tbl :
        /\ Cardinality(w) = (IF Cardinality(tbl) < ReadLimit
                             THEN Cardinality(tbl) ELSE ReadLimit)
        /\ \A r \in w : \A q \in tbl \ w : r.published_date >= q.published_date}

\* the read returns every row of the table (mutation of supabase_reads)
supabase_reads_all(tbl) == {tbl}

\* SupabaseService.get_existing_articles: the possible results of a read
\* that succeeds
supabase_reads(tbl) == RecentRows(tbl)

\* SupabaseService.add_articles: rows are inserted one at a time.  at is the
\* position of the insert that fails for a reason other than uniqueness (0:
\* none), dupMsg the text of the database's uniqueness error.  A recognised
\* duplicate is counted and skipped, any other error stops the loop and is
\* raised.
RECURSIVE insert_loop(_, _, _, _, _, _)
insert_loop(tbl, articles, i, at, dupMsg, acc) ==
    IF i > Len(articles) THEN [acc EXCEPT !.table = tbl]
    ELSE LET article_data == [url |-> articles[i].url,
                              published_date |-> articles[i].published_date,
                              has_full_content |-> articles[i].has_full_content]
             msg == IF i = at THEN CHOOSE m \in OtherErrorMsgs : TRUE
                    ELSE IF article_data.url \in TableUrls(tbl) THEN dupMsg
                    ELSE NoError
             seen == [acc EXCEPT !.attempted = Append(@, article_data.url)]
         IN  IF msg = NoError
             THEN insert_loop(tbl \cup {article_data}, articles, i + 1, at, dupMsg,
                     [seen EXCEPT !.added = @ + 1,
                                  !.inserted = Append(@, article_data.url)])
             ELSE IF IsDuplicateKeyError(msg)
             THEN insert_loop(tbl, articles, i + 1, at, dupMsg,
                     [seen EXCEPT !.skipped = @ + 1])
             ELSE [seen EXCEPT !.table = tbl, !.raised = TRUE, !.error = msg]

NoDbResult ==
    [table |-> {}, added |-> 0, skipped |-> 0, raised |-> FALSE,
     error |-> NoError, attempted |-> <<>>, inserted |-> <<>>]

\* the rows inserted before the error are taken back (mutation of
\* supabase_add_articles)
supabase_add_articles_rolls_back(tbl, articles, at, dupMsg) ==
    LET r == insert_loop(tbl, articles, 1, at, dupMsg, NoDbResult)
    IN  IF r.raised THEN [r EXCEPT !.table = tbl, !.added = 0, !.inserted = <<>>]
        ELSE r

supabase_add_articles(tbl, articles, at, dupMsg) ==
    IF articles = <<>> THEN [NoDbResult EXCEPT !.table = tbl]
    ELSE insert_loop(tbl, articles, 1, at, dupMsg, NoDbResult)

\* -------------------------------------------------------- markdown_exporter
\* dict.get(key, default)
Get(article, key, default) ==
    IF key \in DOMAIN article THEN article[key] ELSE default

Digits == {"0", "1", "2", "3", "4", "5", "6", "7", "8", "9"}
Uppers == <<"A", "B", "C", "D", "E", "F", "G", "H", "I", "J", "K", "L", "M", "N", "O", "P", "Q", "R", "S", "T", "U", "V", "W", "X", "Y", "Z">>
Lowers == <<"a", "b", "c", "d", "e", "f", "g", "h", "i", "j", "k", "l", "m", "n", "o", "p", "q", "r", "s", "t", "u", "v", "w", "x", "y", "z">>

\* str.lower() on one character
LowerChar(c) ==
    IF \E i \in 1..Len(Uppers) : Uppers[i] = c
    THEN Lowers[CHOOSE i \in 1..Len(Uppers) : Uppers[i] = c]
    ELSE c

Dash == "-"

RECURSIVE CollapseDashes(_)
CollapseDashes(text) ==
    IF Len(text) < 2 THEN text
    ELSE IF text[1] = Dash /\ text[2] = Dash THEN CollapseDashes(Tail(text))
    ELSE <<text[1]>> \o CollapseDashes(Tail(text))

RECURSIVE StripDashes(_)
StripDashes(text) ==
    IF text # <<>> /\ Head(text) = Dash THEN StripDashes(Tail(text))
    ELSE IF text # <<>> /\ text[Len(text)] = Dash
         THEN StripDashes(SubSeq(text, 1, Len(text) - 1))
    ELSE text

\* the slug keeps the case of the text (mutation of slugify)
slugify_keeps_case(text, max_length) ==
    StripDashes(CollapseDashes(
        [i \in 1..Len(text) |->
            IF text[i] \in Range(Lowers) \cup Range(Uppers) \cup Digits
            THEN text[i] ELSE Dash]))

\* slugify(text, max_length) of the python-slugify package the exporter
\* imports: the text in lower case, every run of characters other than
\* letters and digits replaced by one hyphen, no hyphen at either end, cut
\* to max_length characters when max_length is not 0.
slugify(text, max_length) ==
    LET dashed == [i \in 1..Len(text) |->
                      IF LowerChar(text[i]) \in Range(Lowers) \cup Digits
                      THEN LowerChar(text[i]) ELSE Dash]
        slug == StripDashes(CollapseDashes(dashed))
    IN  IF max_length > 0 /\ Len(slug) > max_length
        THEN StripDashes(SubSeq(slug, 1, max_length))
        ELSE slug

\* slugify(title, max_length=100)
SlugMaxLength == 100

\* the fields of a date text that strptime reads under
\* "%Y-%m-%d %H:%M:%S"; the date texts of the model are zero-padded or no
\* dates at all
Months == {<<"0", d>> : d \in Digits \ {"0"}} \cup {<<"1", d>> : d \in {"0", "1", "2"}}
Days ==
    ({<<t, d>> : t \in {"0", "1", "2"}, d \in Digits} \ {<<"0", "0">>})
        \cup {<<"3", "0">>, <<"3", "1">>}
Hours == {<<t, d>> : t \in {"0", "1"}, d \in Digits}
            \cup {<<"2", d>> : d \in {"0", "1", "2", "3"}}
Sixtieths == {<<t, d>> : t \in {"0", "1", "2", "3", "4", "5"}, d \in Digits}

\* datetime.strptime(text, "%Y-%m-%d %H:%M:%S") does not raise
ParsesAsDate(text) ==
    /\ Len(text) = 19
    /\ \A i \in 1..4 : text[i] \in Digits
    /\ text[5] = "-" /\ SubSeq(text, 6, 7) \in Months
    /\ text[8] = "-" /\ SubSeq(text, 9, 10) \in Days
    /\ text[11] = " " /\ SubSeq(text, 12, 13) \in Hours
    /\ text[14] = ":" /\ SubSeq(text, 15, 16) \in Sixtieths
    /\ text[17] = ":" /\ SubSeq(text, 18, 19) \in Sixtieths

\* datetime.now(), as strftime("%Y-%m-%d %H:%M:%S") writes it
Now == <<"2", "0", "2", "6", "-", "0", "1", "-", "1", "5", " ", "0", "8", ":", "3", "0", ":", "0", "0">>

\* settings.EXPORT_BASE_PATH
BasePath == "data"

Underscore == <<"_">>
DotMd == <<".", "m", "d">>

\* MarkdownExporter._build_file_path: the components of the path
_build_file_path(article) ==
    LET published_date == Get(article, "published_date", <<>>)
        dt == IF ParsesAsDate(published_date) THEN published_date ELSE Now
        year == SubSeq(dt, 1, 4)
        month == SubSeq(dt, 6, 7)
        date == SubSeq(dt, 1, 10)
        domain == slugify(Get(article, "domain", <<"u", "n", "k", "n", "o", "w", "n">>), 0)
        article_slug == slugify(Get(article, "title", <<"u", "n", "t", "i", "t", "l", "e", "d">>), SlugMaxLength)
        file_name == date \o Underscore \o article_slug \o DotMd
    IN  <<BasePath, domain, year, month, file_name>>

\* export_article line 37
MinChars == 800

\* an article of exactly 800 characters is skipped too (mutation of
\* too_short)
too_short_inclusive(content_text) == content_text <= MinChars

\* len(content_text) < 800
too_short(content_text) == content_text < MinChars

\* return None
NoPath == <<>>

\* what can go wrong once the path is built: the directory or the file
\* cannot be created; the write fails after the file was created
ExportFaults == {"none", "open", "write"}

\* the file at file_path is created or overwritten
WriteFile(disk, file_path, article, body) ==
    {f \in disk : f.path # file_path}
        \cup {[path |-> file_path, url |-> Get(article, "url", <<>>), body |-> body]}

\* MarkdownExporter.export_article: None for a body under 800 characters,
\* else the file is written and its path returned; any error is logged and
\* raised again.
export_article(article, disk, fault) ==
    LET full_content == Get(article, "full_content", None)
        content_text == IF Truthy(full_content) THEN full_content
                        ELSE Get(article, "summary", 0)
    IN  IF too_short(content_text)
        THEN [path |-> NoPath, raised |-> FALSE, wrote |-> FALSE, files |-> disk]
        ELSE LET file_path == _build_file_path(article)
             IN  IF fault = "open"
                 THEN [path |-> NoPath, raised |-> TRUE, wrote |-> FALSE,
                       files |-> disk]
                 ELSE IF fault = "write"
                 THEN [path |-> NoPath, raised |-> TRUE, wrote |-> TRUE,
                       files |-> WriteFile(disk, file_path, article, 0)]
                 ELSE [path |-> file_path, raised |-> FALSE, wrote |-> TRUE,
                       files |-> WriteFile(disk, file_path, article, content_text)]

\* ------------------------------------------------------------------- state
VARIABLES
    worksheet,                  \* the Articles worksheet: header row and rows
    table,                      \* the articles table (url is unique)
    rss_source,                 \* the feeds the configuration CSV lists
    run,                        \* number of the current run of main
    pc,                         \* state of the orchestrator
    rss_feeds,                  \* main: rss_feeds
    fetched_articles,           \* main: fetched_articles
    existing_articles_gsheet,   \* main: existing_articles_gsheet
    existing_urls,              \* processor.existing_urls
    new_articles_for_gsheet,    \* main: new_articles_for_gsheet
    duplicate_articles,         \* main: duplicate_articles
    existing_supabase_urls,     \* main: existing_supabase_urls
    new_articles_for_supabase,  \* main: new_articles_for_supabase
    gsheet_read,                \* outcome of the sheet read: none, ok, failed
    supabase_read,              \* outcome of the database read
    gsheet_write,               \* result of gsheet_service.add_articles
    supabase_write,             \* result of supabase_service.add_articles
    raised,                     \* the exception main re-raised, if any
    steps,                      \* states the run went through, in order
    table0,                     \* the table when the run started
    prev,                       \* how the run before this one ended
    fetch_log,                  \* what a call of fetch_feeds did, in order
    export_queue,               \* the articles given to export_articles
    exported_paths,             \* export_articles: exported_paths
    files,                      \* the markdown files under the base path
    export_calls                \* the calls of export_article, with results

vars == <<worksheet, table, rss_source, run, pc, rss_feeds, fetched_articles,
          existing_articles_gsheet, existing_urls, new_articles_for_gsheet, duplicate_articles,
          existing_supabase_urls, new_articles_for_supabase, gsheet_read,
          supabase_read, gsheet_write, supabase_write, raised, steps, table0, prev,
          fetch_log, export_queue, exported_paths, files, export_calls>>

sinks  == <<worksheet, table>>
locals == <<rss_feeds, fetched_articles, existing_articles_gsheet, existing_urls, new_articles_for_gsheet,
            duplicate_articles, existing_supabase_urls, new_articles_for_supabase>>
outcomes == <<gsheet_read, supabase_read, gsheet_write, supabase_write>>
exporter == <<export_queue, exported_paths, files, export_calls>>

NoSheetWrite == [called |-> FALSE, raised |-> FALSE, appended |-> <<>>]
NoDbWrite ==
    [called |-> FALSE, added |-> 0, skipped |-> 0, raised |-> FALSE,
     error |-> NoError, attempted |-> <<>>, inserted |-> <<>>]

\* before the first run the sheet was never written, or it holds one row
\* entered by hand whose url cell has a trailing space
InitSheets == {EmptySheet, [headers |-> Headers, rows |-> << <<UBsp, "No">> >>]}

StoredRows ==
    {[url |-> Strip(e.link), published_date |-> e.published_date,
      has_full_content |-> e.page # PageFails] : e \in Entries}

\* before the first run the table is empty, or it already holds the articles
\* of the feeds
InitTables == {{}, StoredRows}

\* nothing was fetched on its own, nothing was exported
NoExport ==
    /\ fetch_log = <<>>
    /\ export_queue = <<>>
    /\ exported_paths = <<>>
    /\ files = {}
    /\ export_calls = <<>>

FreshLocals ==
    /\ rss_feeds = <<>>
    /\ fetched_articles = <<>>
    /\ existing_articles_gsheet = <<>>
    /\ existing_urls = {}
    /\ new_articles_for_gsheet = <<>>
    /\ duplicate_articles = <<>>
    /\ existing_supabase_urls = {}
    /\ new_articles_for_supabase = <<>>
    /\ gsheet_read = "none"
    /\ supabase_read = "none"
    /\ gsheet_write = NoSheetWrite
    /\ supabase_write = NoDbWrite
    /\ raised = NoError
    /\ steps = <<"Init">>

Init ==
    /\ worksheet \in InitSheets
    /\ table \in InitTables
    /\ rss_source \in SeqsUpTo(Feeds, MaxFeeds)
    /\ run = 1
    /\ pc = "Init"
    /\ FreshLocals
    /\ table0 = table
    /\ prev = [ended |-> "none", fetched |-> <<>>, clean |-> TRUE]
    /\ NoExport

\* move the orchestrator to state s
Goto(s) == pc' = s /\ steps' = Append(steps, s)

\* an exception reaches the handler of main: logged and raised again
Raise(msg) == Goto("Failed") /\ raised' = msg

\* ----------------------------------------------------------- main, by state
ConfigErrorMsg == <<"config">>
CsvErrorMsg    == <<"csv">>
SheetErrorMsg  == <<"sheet">>

\* settings.validate() and the construction of the services
InitServices ==
    /\ pc = "Init"
    /\ Goto("LoadFeeds")
    /\ UNCHANGED <<sinks, rss_source, run, locals, outcomes, raised, table0, prev,
                   fetch_log, exporter>>

\* a missing setting or credential file, or a service that cannot connect
InitFails ==
    /\ pc = "Init"
    /\ Raise(ConfigErrorMsg)
    /\ UNCHANGED <<sinks, rss_source, run, locals, outcomes, table0, prev,
                   fetch_log, exporter>>

\* Step 1: the feed list; an empty list ends the run
LoadFeeds ==
    /\ pc = "LoadFeeds"
    /\ rss_feeds' = rss_source
    /\ Goto(IF rss_feeds' = <<>> THEN "Done" ELSE "FetchArticles")
    /\ UNCHANGED <<sinks, rss_source, run, fetched_articles,
                   existing_articles_gsheet, existing_urls,
                   new_articles_for_gsheet, duplicate_articles,
                   existing_supabase_urls, new_articles_for_supabase,
                   outcomes, raised, table0, prev,
                   fetch_log, exporter>>

\* get_rss_feeds_from_csv logs the error and raises it again
LoadFeedsFails ==
    /\ pc = "LoadFeeds"
    /\ Raise(CsvErrorMsg)
    /\ UNCHANGED <<sinks, rss_source, run, locals, outcomes, table0, prev,
                   fetch_log, exporter>>

\* Step 2: fetch_feeds; an empty result ends the run
FetchArticles ==
    /\ pc = "FetchArticles"
    /\ \E failed \in SUBSET (1..Len(rss_feeds)) :
          fetched_articles' = fetch_feeds(rss_feeds, failed)
    /\ Goto(IF fetched_articles' = <<>> THEN "Done" ELSE "ReadSheetExisting")
    /\ UNCHANGED <<sinks, rss_source, run, rss_feeds,
                   existing_articles_gsheet, existing_urls,
                   new_articles_for_gsheet, duplicate_articles,
                   existing_supabase_urls, new_articles_for_supabase,
                   outcomes, raised, table0, prev,
                   fetch_log, exporter>>

\* Step 3: the rows of the sheet, loaded into the processor
ReadSheetExisting ==
    /\ pc = "ReadSheetExisting"
    /\ \E ok \in BOOLEAN :
          /\ gsheet_read' = IF ok THEN "ok" ELSE "failed"
          /\ existing_articles_gsheet' = gsheet_get_existing_articles(worksheet, ok)
          /\ existing_urls' = load_existing_articles(existing_articles_gsheet')
    /\ Goto("DedupSheet")
    /\ UNCHANGED <<sinks, rss_source, run, rss_feeds, fetched_articles,
                   new_articles_for_gsheet, duplicate_articles,
                   existing_supabase_urls, new_articles_for_supabase,
                   supabase_read, gsheet_write, supabase_write, raised, table0, prev,
                   fetch_log, exporter>>

\* Step 4: the pre-filter for the sheet
DedupSheet ==
    /\ pc = "DedupSheet"
    /\ LET r == filter_new_articles(existing_urls, fetched_articles)
       IN  /\ new_articles_for_gsheet' = r.new
           /\ duplicate_articles' = r.duplicate
    /\ Goto("ReadDbExisting")
    /\ UNCHANGED <<sinks, rss_source, run, rss_feeds, fetched_articles,
                   existing_articles_gsheet, existing_urls,
                   existing_supabase_urls, new_articles_for_supabase,
                   outcomes, raised, table0, prev,
                   fetch_log, exporter>>

\* main line 59: the stripped urls of the rows read that have a url
existing_urls_of(rows) == {Strip(r.url) : r \in {q \in rows : q.url # <<>>}}

\* SupabaseService.get_existing_articles followed by main line 59; a failed
\* read is logged and gives []
supabase_existing(tbl, ok) ==
    IF ok THEN {existing_urls_of(w) : w \in supabase_reads(tbl)} ELSE {{}}

\* Step 4b: the most recent rows of the table
ReadDbExisting ==
    /\ pc = "ReadDbExisting"
    /\ \E ok \in BOOLEAN :
          /\ supabase_read' = IF ok THEN "ok" ELSE "failed"
          /\ existing_supabase_urls' \in supabase_existing(table, ok)
    /\ Goto("DedupDb")
    /\ UNCHANGED <<sinks, rss_source, run, rss_feeds, fetched_articles,
                   existing_articles_gsheet, existing_urls,
                   new_articles_for_gsheet, duplicate_articles,
                   new_articles_for_supabase, gsheet_read, gsheet_write,
                   supabase_write, raised, table0, prev,
                   fetch_log, exporter>>

\* the processor, still loaded with the sheet's urls, filters for the
\* database too (mutation of filter_for_supabase)
filter_for_supabase_reuse(fetched, urls) ==
    filter_new_articles(existing_urls, fetched).new

\* main lines 63-66
filter_for_supabase(fetched, urls) ==
    SelectSeq(fetched, LAMBDA article : Strip(article.url) \notin urls)

\* the run ends when either list is empty (mutation of AfterDedup)
AfterDedupEither(for_gsheet, for_supabase) ==
    IF for_gsheet = <<>> \/ for_supabase = <<>> THEN "Done" ELSE "WriteSheet"

\* main line 69: nothing new for either sink ends the run
AfterDedup(for_gsheet, for_supabase) ==
    IF for_gsheet = <<>> /\ for_supabase = <<>> THEN "Done" ELSE "WriteSheet"

\* Step 4c: the pre-filter for the database
DedupDb ==
    /\ pc = "DedupDb"
    /\ new_articles_for_supabase' =
          filter_for_supabase(fetched_articles, existing_supabase_urls)
    /\ Goto(AfterDedup(new_articles_for_gsheet, new_articles_for_supabase'))
    /\ UNCHANGED <<sinks, rss_source, run, rss_feeds, fetched_articles,
                   existing_articles_gsheet, existing_urls,
                   new_articles_for_gsheet, duplicate_articles,
                   existing_supabase_urls, outcomes, raised, table0, prev,
                   fetch_log, exporter>>

\* the sheet error is swallowed and the run goes on (mutation of AfterWrite)
AfterWriteSwallow(failed, next) == next

\* a failed write is tried again (mutation of AfterWrite)
AfterWriteRetry(failed, next) == IF failed THEN "WriteSheet" ELSE next

\* an error raised by a sink's add_articles leaves main through its handler
AfterWrite(failed, next) == IF failed THEN "Failed" ELSE next

\* Step 5a: the new articles for the sheet, if any, in one batch append
WriteSheet ==
    /\ pc = "WriteSheet"
    /\ IF new_articles_for_gsheet # <<>>
       THEN \E fault \in SheetFaults :
               LET r == gsheet_add_articles(
                            worksheet, prepare_for_storage(new_articles_for_gsheet), fault)
               IN  /\ worksheet' = r.ws
                   /\ gsheet_write' = [called |-> TRUE, raised |-> r.raised,
                                       appended |-> r.appended]
                   /\ raised' = IF r.raised THEN SheetErrorMsg ELSE raised
                   /\ Goto(AfterWrite(r.raised, "WriteDb"))
       ELSE /\ UNCHANGED <<worksheet, gsheet_write, raised>>
            /\ Goto("WriteDb")
    /\ UNCHANGED <<table, rss_source, run, locals, gsheet_read, supabase_read,
                   supabase_write, table0, prev,
                   fetch_log, exporter>>

\* main lines 86-99: the fields of the database row
storage_articles_supabase(articles) ==
    [i \in 1..Len(articles) |->
        [url |-> articles[i].url,
         published_date |-> articles[i].published_date,
         has_full_content |-> Truthy(articles[i].full_content)]]

\* Step 5b: the new articles for the database, if any, one insert each
WriteDb ==
    /\ pc = "WriteDb"
    /\ IF new_articles_for_supabase # <<>>
       THEN \E at \in 0..Len(new_articles_for_supabase), dupMsg \in UniqueViolationMsgs :
               LET r == supabase_add_articles(
                            table, storage_articles_supabase(new_articles_for_supabase),
                            at, dupMsg)
               IN  /\ table' = r.table
                   /\ supabase_write' =
                         [called |-> TRUE, added |-> r.added, skipped |-> r.skipped,
                          raised |-> r.raised, error |-> r.error,
                          attempted |-> r.attempted, inserted |-> r.inserted]
                   /\ raised' = IF r.raised THEN r.error ELSE raised
                   /\ Goto(AfterWrite(r.raised, "Done"))
       ELSE /\ UNCHANGED <<table, supabase_write, raised>>
            /\ Goto("Done")
    /\ UNCHANGED <<worksheet, rss_source, run, locals, gsheet_read, supabase_read,
                   gsheet_write, table0, prev,
                   fetch_log, exporter>>

\* the process is stopped from outside (killed, power lost) once the sheet
\* step is over and before the database step begins
Crash ==
    /\ pc = "WriteDb"
    /\ Goto("Crashed")
    /\ UNCHANGED <<sinks, rss_source, run, locals, outcomes, raised, table0, prev,
                   fetch_log, exporter>>

\* the process has ended; the scheduler starts main again, from nothing
NextRun ==
    /\ pc \in {"Done", "Failed", "Crashed"}
    /\ run < MaxRuns
    /\ run' = run + 1
    /\ pc' = "Init"
    /\ rss_feeds' = <<>>
    /\ fetched_articles' = <<>>
    /\ existing_articles_gsheet' = <<>>
    /\ existing_urls' = {}
    /\ new_articles_for_gsheet' = <<>>
    /\ duplicate_articles' = <<>>
    /\ existing_supabase_urls' = {}
    /\ new_articles_for_supabase' = <<>>
    /\ gsheet_read' = "none"
    /\ supabase_read' = "none"
    /\ gsheet_write' = NoSheetWrite
    /\ supabase_write' = NoDbWrite
    /\ raised' = NoError
    /\ steps' = <<"Init">>
    /\ table0' = table
    /\ prev' = [ended |-> pc, fetched |-> fetched_articles,
                clean |-> prev.clean /\ pc = "Done" /\ gsheet_read # "failed"]
    /\ UNCHANGED <<sinks, rss_source, fetch_log, exporter>>

Next ==
    \/ InitServices
    \/ InitFails
    \/ LoadFeeds
    \/ LoadFeedsFails
    \/ FetchArticles
    \/ ReadSheetExisting
    \/ DedupSheet
    \/ ReadDbExisting
    \/ DedupDb
    \/ WriteSheet
    \/ WriteDb
    \/ NextRun

Spec == Init /\ [][Next]_vars

\* the runs of main when the process can also be stopped between the two
\* writes
NextCrash == Next \/ Crash

\* a first deployment: both sinks are empty, so that what a stopped run
\* appended to the sheet is missing from the database
InitCrash == Init /\ worksheet = EmptySheet /\ table = {}

SpecCrash == InitCrash /\ [][NextCrash]_vars

\* -------------------------------------------- the pre-filter on its own
\* load_existing_articles and filter_new_articles applied to records and
\* batches of any shape: urls with spaces around them, empty urls.
FilterUrls == {<<>>, <<" ">>, UA, USpA, UB, UBsp}
FilterRecords == [url : FilterUrls]
FilterArticles ==
    [title : {UT}, url : FilterUrls, summary : {100}, full_content : {None},
     published_date : {1}]

InitFilter ==
    /\ worksheet = EmptySheet
    /\ table = {}
    /\ rss_source = <<>>
    /\ run = 1
    /\ pc = "FilterInit"
    /\ rss_feeds = <<>>
    /\ fetched_articles \in SeqsUpTo(FilterArticles, MaxLen)
    /\ existing_articles_gsheet \in SeqsUpTo(FilterRecords, MaxLen)
    /\ existing_urls = {}
    /\ new_articles_for_gsheet = <<>>
    /\ duplicate_articles = <<>>
    /\ existing_supabase_urls = {}
    /\ new_articles_for_supabase = <<>>
    /\ gsheet_read = "none"
    /\ supabase_read = "none"
    /\ gsheet_write = NoSheetWrite
    /\ supabase_write = NoDbWrite
    /\ raised = NoError
    /\ steps = <<"FilterInit">>
    /\ table0 = {}
    /\ prev = [ended |-> "none", fetched |-> <<>>, clean |-> TRUE]
    /\ NoExport

FilterLoad ==
    /\ pc = "FilterInit"
    /\ existing_urls' = load_existing_articles(existing_articles_gsheet)
    /\ Goto("FilterLoaded")
    /\ UNCHANGED <<sinks, rss_source, run, rss_feeds, fetched_articles,
                   existing_articles_gsheet, new_articles_for_gsheet,
                   duplicate_articles, existing_supabase_urls,
                   new_articles_for_supabase, outcomes, raised, table0, prev,
                   fetch_log, exporter>>

FilterApply ==
    /\ pc = "FilterLoaded"
    /\ LET r == filter_new_articles(existing_urls, fetched_articles)
       IN  /\ new_articles_for_gsheet' = r.new
           /\ duplicate_articles' = r.duplicate
    /\ Goto("FilterDone")
    /\ UNCHANGED <<sinks, rss_source, run, rss_feeds, fetched_articles,
                   existing_articles_gsheet, existing_urls, existing_supabase_urls,
                   new_articles_for_supabase, outcomes, raised, table0, prev,
                   fetch_log, exporter>>

NextFilter == FilterLoad \/ FilterApply

SpecFilter == InitFilter /\ [][NextFilter]_vars

\* ------------------------------------------------- fetch_feeds on its own
\* feeds of more than one entry, with entries whose page cannot be
\* extracted or that have no link, and the ways a CSV writes the flag
EntryNoLink == [EntryB EXCEPT !.link = <<" ">>]

FetchFeeds ==
    Feeds \cup
    {[extract_articles |-> "True",  entries |-> <<EntryB, EntryA>>],
     [extract_articles |-> "false", entries |-> <<EntryA>>],
     [extract_articles |-> "true",  entries |-> <<EntryNoLink, EntryB>>]}

InitFetch ==
    /\ worksheet = EmptySheet
    /\ table = {}
    /\ rss_source = <<>>
    /\ run = 1
    /\ pc = "FetchInit"
    /\ rss_feeds \in SeqsUpTo(FetchFeeds, MaxFeeds)
    /\ fetched_articles = <<>>
    /\ existing_articles_gsheet = <<>>
    /\ existing_urls = {}
    /\ new_articles_for_gsheet = <<>>
    /\ duplicate_articles = <<>>
    /\ existing_supabase_urls = {}
    /\ new_articles_for_supabase = <<>>
    /\ gsheet_read = "none"
    /\ supabase_read = "none"
    /\ gsheet_write = NoSheetWrite
    /\ supabase_write = NoDbWrite
    /\ raised = NoError
    /\ steps = <<"FetchInit">>
    /\ table0 = {}
    /\ prev = [ended |-> "none", fetched |-> <<>>, clean |-> TRUE]
    /\ NoExport

\* one call of fetch_feeds; any of the feeds may raise
FetchFeedsCall ==
    /\ pc = "FetchInit"
    /\ \E failed \in SUBSET (1..Len(rss_feeds)) :
          /\ fetched_articles' = fetch_feeds(rss_feeds, failed)
          /\ fetch_log' = fetch_feeds_log(rss_feeds, failed)
    /\ Goto("FetchDone")
    /\ UNCHANGED <<sinks, rss_source, run, rss_feeds,
                   existing_articles_gsheet, existing_urls,
                   new_articles_for_gsheet, duplicate_articles,
                   existing_supabase_urls, new_articles_for_supabase,
                   outcomes, raised, table0, prev, exporter>>

NextFetch == FetchFeedsCall

SpecFetch == InitFetch /\ [][NextFetch]_vars

\* --------------------------------------------- export_articles on its own
\* the example of the specification; an article of exactly 800 characters
\* with a date that does not parse; full contents that are short or empty;
\* a title that gives the slug of the example; an article with a url and a
\* summary only
XHello ==
    [title |-> <<"H", "e", "l", "l", "o", ",", " ", "W", "o", "r", "l", "d", "!">>, url |-> UA,
     published_date |-> <<"2", "0", "2", "4", "-", "0", "3", "-", "0", "5", " ", "1", "0", ":", "0", "0", ":", "0", "0">>, domain |-> <<"w", "w", "w", ".", "e", "x", "a", "m", "p", "l", "e", ".", "c", "o", "m">>,
     summary |-> 100, full_content |-> 900]
XBoundary ==
    [title |-> <<"A", "-", "-", "b", " ", "C">>, url |-> UB,
     published_date |-> <<"y", "e", "s", "t", "e", "r", "d", "a", "y">>, domain |-> <<"E", "x", "a", "m", "p", "l", "e", ".", "c", "o", "m">>,
     summary |-> 800, full_content |-> None]
XShortFull == [XHello EXCEPT !.summary = 900, !.full_content = 799]
XShortSummary == [XBoundary EXCEPT !.summary = 799]
XEmptyFull ==
    [XHello EXCEPT !.title = <<"h", "e", "l", "l", "o", " ", " ", "w", "o", "r", "l", "d">>, !.url = UB,
                   !.summary = 900, !.full_content = 0]
XBare == [url |-> UB, summary |-> 900]

ExportArticles == {XHello, XBoundary, XShortFull, XShortSummary, XEmptyFull, XBare}

InitExport ==
    /\ worksheet = EmptySheet
    /\ table = {}
    /\ rss_source = <<>>
    /\ run = 1
    /\ pc = "Exporting"
    /\ rss_feeds = <<>>
    /\ fetched_articles = <<>>
    /\ existing_articles_gsheet = <<>>
    /\ existing_urls = {}
    /\ new_articles_for_gsheet = <<>>
    /\ duplicate_articles = <<>>
    /\ existing_supabase_urls = {}
    /\ new_articles_for_supabase = <<>>
    /\ gsheet_read = "none"
    /\ supabase_read = "none"
    /\ gsheet_write = NoSheetWrite
    /\ supabase_write = NoDbWrite
    /\ raised = NoError
    /\ steps = <<"Exporting">>
    /\ table0 = {}
    /\ prev = [ended |-> "none", fetched |-> <<>>, clean |-> TRUE]
    /\ fetch_log = <<>>
    /\ export_queue \in SeqsUpTo(ExportArticles, MaxLen)
    /\ exported_paths = <<>>
    /\ files = {}
    /\ export_calls = <<>>

\* one turn of the loop of export_articles: what export_article returns is
\* appended to exported_paths; what it raises is logged and the loop goes on
ExportNext ==
    /\ pc = "Exporting"
    /\ Len(export_calls) < Len(export_queue)
    /\ LET article == export_queue[Len(export_calls) + 1]
       IN  \E fault \in ExportFaults :
              LET r == export_article(article, files, fault)
              IN  /\ files' = r.files
                  /\ export_calls' =
                        Append(export_calls,
                               [article |-> article, path |-> r.path,
                                raised |-> r.raised, wrote |-> r.wrote])
                  /\ exported_paths' =
                        IF r.raised THEN exported_paths
                        ELSE Append(exported_paths, r.path)
    /\ UNCHANGED <<sinks, rss_source, run, pc, locals, outcomes, raised, steps,
                   table0, prev, fetch_log, export_queue>>

\* the loop is over: export_articles returns exported_paths
ExportReturn ==
    /\ pc = "Exporting"
    /\ Len(export_calls) = Len(export_queue)
    /\ Goto("ExportDone")
    /\ UNCHANGED <<sinks, rss_source, run, locals, outcomes, raised, table0, prev,
                   fetch_log, exporter>>

NextExport == ExportNext \/ ExportReturn

SpecExport == InitExport /\ [][NextExport]_vars

\* ================================================================== claims
\* the run has left state s (the work of s is done)
Past(s) == \E i \in 1..(Len(steps) - 1) : steps[i] = s

\* the run has left state s without an error
Did(s) == \E i \in 1..(Len(steps) - 1) : steps[i] = s /\ steps[i + 1] # "Failed"

Count(x, seq) == Cardinality({i \in 1..Len(seq) : seq[i] = x})

UrlsOf(articles) == [i \in 1..Len(articles) |-> articles[i].url]

RowUrls(rows) == [i \in 1..Len(rows) |-> rows[i][UrlCol]]

\* C1: filter_new_articles(F) puts every article of F in exactly one of the
\* two lists, and the duplicate list holds exactly the articles of F whose
\* stripped url is in the set E loaded by load_existing_articles.
C1_FilterPartitions ==
    pc = "FilterDone" =>
        /\ Len(new_articles_for_gsheet) + Len(duplicate_articles) = Len(fetched_articles)
        /\ \A x \in Range(fetched_articles) :
              /\ Count(x, fetched_articles) =
                    Count(x, new_articles_for_gsheet) + Count(x, duplicate_articles)
              /\ ~(x \in Range(new_articles_for_gsheet) /\ x \in Range(duplicate_articles))
              /\ x \in Range(duplicate_articles) <=> Strip(x.url) \in existing_urls
        /\ Range(new_articles_for_gsheet) \cup Range(duplicate_articles)
              \subseteq Range(fetched_articles)

\* C1 witness: a batch split into a new and a duplicate part, the duplicate
\* found only because its url was stripped.
C1_Witness ==
    /\ pc = "FilterDone"
    /\ new_articles_for_gsheet # <<>>
    /\ \E x \in Range(duplicate_articles) : x.url # Strip(x.url)

C3_SinksFilteredIndependently ==
    pc = "Done" =>
        \A i \in 1..Len(fetched_articles) :
            LET a == fetched_articles[i]
                u == Strip(a.url)
            IN  /\ (u \in existing_urls /\ u \notin existing_supabase_urls) =>
                      /\ a \in Range(new_articles_for_supabase)
                      /\ a.url \in Range(supabase_write.attempted)
                      /\ a.url \in TableUrls(table)
                      /\ a.url \notin TableUrls(table0) =>
                            a.url \in Range(supabase_write.inserted)
                      /\ a.url \notin {r[UrlCol] : r \in Range(gsheet_write.appended)}
                /\ (u \notin existing_urls /\ u \in existing_supabase_urls) =>
                      /\ a \in Range(new_articles_for_gsheet)
                      /\ a.url \in {r[UrlCol] : r \in Range(gsheet_write.appended)}
                      /\ a.url \notin Range(supabase_write.attempted)

\* C3 witness: a completed run that inserted an article the sheet already
\* held, both reads having succeeded.
C3_Witness ==
    /\ pc = "Done" /\ gsheet_read = "ok" /\ supabase_read = "ok"
    /\ \E i \in 1..Len(fetched_articles) :
          /\ Strip(fetched_articles[i].url) \in existing_urls
          /\ Strip(fetched_articles[i].url) \notin existing_supabase_urls
          /\ fetched_articles[i].url \in Range(supabase_write.inserted)
          /\ gsheet_write.appended = <<>>

\* what the claim calls a uniqueness violation: a message with 'duplicate
\* key' (in any case) or '23505' in it
SaysDuplicate(msg) ==
    \E f \in Range(msg) : f \in {"duplicate key", "Duplicate Key", "23505"}

\* the i-th attempted insert met a row with its url
MetDuplicate(attempted, i) ==
    \/ attempted[i] \in TableUrls(table0)
    \/ \E j \in 1..(i - 1) : attempted[j] = attempted[i]

\* C4: in SupabaseService.add_articles a uniqueness violation is counted as
\* skipped, raises nothing and the loop goes on; any other error stops the
\* batch at that article and reaches the caller.
C4_DuplicateSkippedOtherRaised ==
    supabase_write.called =>
        LET w == supabase_write
            n == Len(w.attempted)
            last == IF w.raised THEN n - 1 ELSE n
        IN  /\ w.skipped = Cardinality({i \in 1..last : MetDuplicate(w.attempted, i)})
            /\ w.added = last - w.skipped
            /\ Len(w.inserted) = w.added
            /\ Range(w.inserted) = TableUrls(table) \ TableUrls(table0)
            /\ ~w.raised =>
                  /\ w.attempted = UrlsOf(new_articles_for_supabase)
                  /\ pc = "Done" /\ raised = NoError
            /\ w.raised =>
                  /\ ~SaysDuplicate(w.error)
                  /\ w.attempted = SubSeq(UrlsOf(new_articles_for_supabase), 1, n)
                  /\ pc = "Failed" /\ raised = w.error

\* C4 witness: a batch in which a duplicate was skipped, the loop went on,
\* and a later insert failed for another reason.
C4_Witness ==
    /\ supabase_write.called
    /\ supabase_write.skipped > 0
    /\ supabase_write.raised
    /\ pc = "Failed"

\* C5: an empty feed list, an empty fetch result, or nothing new for either
\* sink ends the run successfully with no write; when one sink has nothing
\* new, only the other sink is written.
C5_EarlyExits ==
    LET NoWrite == /\ ~gsheet_write.called /\ ~supabase_write.called
                   /\ table = table0 /\ raised = NoError /\ pc = "Done"
    IN  /\ (Did("LoadFeeds") /\ rss_feeds = <<>>) => NoWrite
        /\ (Did("FetchArticles") /\ fetched_articles = <<>>) => NoWrite
        /\ (Did("DedupDb") /\ new_articles_for_gsheet = <<>>
               /\ new_articles_for_supabase = <<>>) => NoWrite
        /\ (pc = "Done" /\ Did("DedupDb")) =>
              /\ gsheet_write.called <=> new_articles_for_gsheet # <<>>
              /\ supabase_write.called <=> new_articles_for_supabase # <<>>
        /\ gsheet_write.called => new_articles_for_gsheet # <<>>
        /\ supabase_write.called => new_articles_for_supabase # <<>>

\* C5 witness: a completed run with nothing new for the sheet that wrote the
\* database only.
C5_Witness ==
    /\ pc = "Done"
    /\ new_articles_for_gsheet = <<>> /\ new_articles_for_supabase # <<>>
    /\ ~gsheet_write.called /\ supabase_write.called
    /\ supabase_write.inserted # <<>>

\* the states of a run, in the order of main
StateOrder ==
    <<"Init", "LoadFeeds", "FetchArticles", "ReadSheetExisting", "DedupSheet",
      "ReadDbExisting", "DedupDb", "WriteSheet", "WriteDb", "Done">>

Rank(s) == IF s = "Failed" THEN Len(StateOrder) + 1
           ELSE CHOOSE k \in 1..Len(StateOrder) : StateOrder[k] = s

\* C6: a run goes through its states in the order Init, LoadFeeds,
\* FetchArticles, ReadSheetExisting, DedupSheet, ReadDbExisting, DedupDb,
\* WriteSheet, WriteDb, Done, never backwards: each state is followed by the
\* next of the list or by the end of the run; both reads and both filters
\* come before the first write, the sheet write before the database write.
C6_LinearOrder ==
    /\ pc = steps[Len(steps)]
    /\ \A i \in 1..(Len(steps) - 1) :
          /\ steps[i] \notin {"Done", "Failed"}
          /\ \/ Rank(steps[i + 1]) = Rank(steps[i]) + 1
             \/ steps[i + 1] \in {"Done", "Failed"}
    /\ (gsheet_write.called \/ supabase_write.called) =>
          /\ Did("ReadSheetExisting") /\ Did("DedupSheet")
          /\ Did("ReadDbExisting") /\ Did("DedupDb")
          /\ gsheet_read # "none" /\ supabase_read # "none"
    /\ supabase_write.called => Did("WriteSheet")
    /\ gsheet_write.called => Past("WriteSheet")

\* C6 witness: a run that went through all ten states and wrote both sinks.
C6_Witness ==
    /\ steps = StateOrder
    /\ gsheet_write.appended # <<>>
    /\ supabase_write.inserted # <<>>

\* C7: an error that main does not handle ends the run: no later state is
\* entered (a sheet append that raises leaves the database insert
\* unattempted), the error is raised to the caller, and the next run starts
\* from Init with nothing kept of the failed one.
C7_ErrorAbortsRun ==
    /\ \A i \in 1..(Len(steps) - 1) : steps[i] # "Failed"
    /\ pc = "Failed" <=> raised # NoError
    /\ gsheet_write.raised =>
          /\ pc = "Failed" /\ raised = SheetErrorMsg
          /\ ~supabase_write.called /\ table = table0
          /\ ~Past("WriteDb")
    /\ supabase_write.raised => (pc = "Failed" /\ raised = supabase_write.error)
    /\ (pc = "Init" /\ prev.ended = "Failed") => FreshLocals

\* C7 witness: the sheet append raised while there were articles to insert
\* into the database.
C7_Witness ==
    /\ pc = "Failed"
    /\ gsheet_write.raised
    /\ new_articles_for_supabase # <<>>
    /\ ~supabase_write.called

\* C8: a failed read of a sink's existing articles raises nothing and gives
\* an empty list; the run goes on, every fetched article is new for that
\* sink and is handed to that sink's add_articles.
C8_FailedReadMeansAllNew ==
    /\ gsheet_read = "failed" =>
          /\ existing_articles_gsheet = <<>> /\ existing_urls = {}
          /\ Did("ReadSheetExisting")
          /\ Past("DedupSheet") =>
                (new_articles_for_gsheet = fetched_articles /\ duplicate_articles = <<>>)
          /\ Past("WriteSheet") =>
                /\ gsheet_write.called
                /\ ~gsheet_write.raised => RowUrls(gsheet_write.appended) = UrlsOf(fetched_articles)
    /\ supabase_read = "failed" =>
          /\ existing_supabase_urls = {}
          /\ Did("ReadDbExisting")
          /\ Past("DedupDb") =>
                (new_articles_for_supabase = fetched_articles /\ Did("DedupDb"))
          /\ Past("WriteDb") =>
                /\ supabase_write.called
                /\ ~supabase_write.raised =>
                      supabase_write.attempted = UrlsOf(fetched_articles)

\* C8 witness: both reads failed although both sinks held the fetched
\* article, and the run handed it to both sinks again.
C8_Witness ==
    /\ pc = "Done"
    /\ gsheet_read = "failed" /\ supabase_read = "failed"
    /\ RowUrls(gsheet_write.appended) = UrlsOf(fetched_articles)
    /\ supabase_write.attempted = UrlsOf(fetched_articles)
    /\ prev.ended = "Done" /\ prev.fetched = fetched_articles

NoDuplicateRows(rows) ==
    \A i, j \in 1..Len(rows) : i # j => rows[i][UrlCol] # rows[j][UrlCol]

\* C9: after runs that all completed and whose sheet reads all succeeded,
\* from a sheet without duplicate urls, no two rows of the sheet have the
\* same url.
C9_NoDuplicateSheetRows ==
    (pc = "Done" /\ prev.clean /\ gsheet_read # "failed") =>
        NoDuplicateRows(worksheet.rows)

\* C10: the database read sees only the ReadLimit most recent rows; a
\* fetched article stored outside that window passes the pre-filter, its
\* insert is attempted, rejected for uniqueness and counted as skipped; the
\* table never holds two rows with one url.
C10_WindowedReadAndUniqueUrls ==
    /\ \A r, q \in table : r.url = q.url => r = q
    /\ supabase_read = "ok" =>
          /\ Cardinality(existing_supabase_urls) <= ReadLimit
          /\ existing_supabase_urls \subseteq TableUrls(table0)
          /\ \A r, q \in table0 :
                (r.url \in existing_supabase_urls /\ q.url \notin existing_supabase_urls)
                    => r.published_date >= q.published_date
    /\ Did("DedupDb") =>
          \A i \in 1..Len(fetched_articles) :
              Strip(fetched_articles[i].url) \notin existing_supabase_urls =>
                  fetched_articles[i] \in Range(new_articles_for_supabase)
    /\ supabase_write.called =>
          LET w == supabase_write
              last == IF w.raised THEN Len(w.attempted) - 1 ELSE Len(w.attempted)
          IN  /\ \A u \in TableUrls(table0) : u \notin Range(w.inserted)
              /\ w.skipped >=
                    Cardinality({i \in 1..last : w.attempted[i] \in TableUrls(table0)})
              /\ w.raised => ~SaysDuplicate(w.error)
              /\ ~w.raised => w.attempted = UrlsOf(new_articles_for_supabase)

\* C10 witness: the read succeeded, a fetched article was stored outside the
\* window, and its insert was attempted and skipped.
C10_Witness ==
    /\ pc = "Done" /\ supabase_read = "ok"
    /\ \E i \in 1..Len(fetched_articles) :
          LET u == fetched_articles[i].url
          IN  /\ u \in TableUrls(table0) \ existing_supabase_urls
              /\ u \in Range(supabase_write.attempted)
    /\ supabase_write.skipped > 0
    /\ supabase_write.inserted = <<>>

\* the sheet holds rows that the table lacks
SinksDisagree ==
    \E r \in Range(worksheet.rows) : Strip(r[UrlCol]) \notin TableUrls(table)

FailedFeeds == {e.feed : e \in {x \in Range(fetch_log) : x.op = "error"}}

RECURSIVE Flatten(_)
Flatten(lists) == IF lists = <<>> THEN <<>> ELSE Head(lists) \o Flatten(Tail(lists))

\* the articles of feed i of the list
ArticlesOfFeed(i) == _parse_feed(rss_feeds[i].entries, extract_articles(rss_feeds[i]))

\* C12: fetch_feeds fetches every feed of the list, in order; a feed whose
\* fetch or parse raises contributes no article and does not stop the loop;
\* the result is the concatenation, in feed-list order, of the articles of
\* the feeds that did not raise.
C12_FailedFeedSkipped ==
    pc = "FetchDone" =>
        /\ [i \in 1..Len(rss_feeds) |-> [op |-> "fetch", feed |-> i]] =
              SelectSeq(fetch_log, LAMBDA e : e.op = "fetch")
        /\ fetched_articles =
              Flatten([i \in 1..Len(rss_feeds) |->
                          IF i \in FailedFeeds THEN <<>> ELSE ArticlesOfFeed(i)])

\* C12 witness: the first feed, which has entries, raised; the second was
\* still fetched and its articles are the result.
C12_Witness ==
    /\ pc = "FetchDone"
    /\ Len(rss_feeds) = 2
    /\ FailedFeeds = {1}
    /\ ArticlesOfFeed(1) # <<>>
    /\ fetched_articles = ArticlesOfFeed(2)
    /\ fetched_articles # <<>>

\* C13: between the fetches of two consecutive feeds fetch_feeds sleeps one
\* second, whatever the outcome of the earlier feed: each fetch but the
\* first comes right after the sleep that follows the fetch of the feed
\* before it.
C13_DelayBetweenFeeds ==
    pc = "FetchDone" =>
        \A k \in 1..Len(fetch_log) :
            (fetch_log[k].op = "fetch" /\ fetch_log[k].feed > 1) =>
                /\ k > 1
                /\ fetch_log[k - 1] = [op |-> "sleep", feed |-> fetch_log[k].feed - 1]

\* the body text of an article: its full content if it has one that is not
\* empty, else its summary
Body(article) ==
    IF "full_content" \in DOMAIN article
          /\ article.full_content # None /\ article.full_content # 0
    THEN article.full_content
    ELSE IF "summary" \in DOMAIN article THEN article.summary ELSE 0

\* C14: export_article writes no file and returns no path for an article
\* whose body text (full content if not empty, else summary) has fewer than
\* 800 characters, whatever its other fields; for an article with 800
\* characters or more it writes the file and returns its path, unless the
\* write raises.
C14_ShortBodyNeverExported ==
    /\ \A k \in 1..Len(export_calls) :
          LET c == export_calls[k]
          IN  /\ Body(c.article) < 800 =>
                    (~c.wrote /\ c.path = NoPath /\ ~c.raised)
              /\ Body(c.article) >= 800 =>
                    /\ c.raised \/ (c.wrote /\ c.path # NoPath)
                    /\ c.path # NoPath => \E f \in files : f.path = c.path
    /\ \A f \in files :
          \E k \in 1..Len(export_calls) :
              /\ Body(export_calls[k].article) >= 800
              /\ export_calls[k].wrote
              /\ Get(export_calls[k].article, "url", <<>>) = f.url

\* C14 witness: an article with a long summary and a full content of 799
\* characters was skipped, and an article of exactly 800 characters was
\* written.
C14_Witness ==
    /\ pc = "ExportDone"
    /\ export_queue = <<XShortFull, XBoundary>>
    /\ export_calls[1].path = NoPath /\ ~export_calls[1].wrote
    /\ export_calls[2].path # NoPath /\ export_calls[2].wrote
    /\ Cardinality(files) = 1
\* the characters a sanitized path component is made of
SlugChars == Range(Lowers) \cup Digits \cup {"-"}

\* what the claim says of every path: base path, a directory for the
\* domain, year, month and a file name {date}_{slug}.md, year, month and
\* date being those of the published date
PathShape(article, path) ==
    LET pd == Get(article, "published_date", <<>>)
        name == path[5]
    IN  /\ Len(path) = 5
        /\ path[1] = "data"
        /\ Len(name) >= 14
        /\ SubSeq(name, 1, 4) = path[3]
        /\ SubSeq(name, 6, 7) = path[4]
        /\ name[11] = "_"
        /\ SubSeq(name, Len(name) - 2, Len(name)) = <<".", "m", "d">>
        /\ Range(SubSeq(name, 12, Len(name) - 3)) \subseteq SlugChars
        /\ ParsesAsDate(pd) => SubSeq(name, 1, 10) = SubSeq(pd, 1, 10)

\* C15 as stated: for the title "Hello, World!", the published date
\* "2024-03-05 10:00:00" and the domain "www.example.com" the path is
\* {base}/example.com/2024/03/2024-03-05_hello-world.md; every path is base
\* path / sanitized domain / year / month / {date}_{slug(title)}.md.
C15_ExamplePath ==
    \A k \in 1..Len(export_calls) :
        LET c == export_calls[k]
        IN  c.path # NoPath =>
                /\ PathShape(c.article, c.path)
                /\ c.article = XHello =>
                      c.path = <<"data", <<"e", "x", "a", "m", "p", "l", "e", ".", "c", "o", "m">>, <<"2", "0", "2", "4">>, <<"0", "3">>, <<"2", "0", "2", "4", "-", "0", "3", "-", "0", "5", "_", "h", "e", "l", "l", "o", "-", "w", "o", "r", "l", "d", ".", "m", "d">>>>

\* C15 amended: the domain directory of the example is www-example-com (the
\* exporter slugifies the domain as it is given, and a slug has no dot);
\* every path is base path / slug of the domain / year / month /
\* {date}_{slug(title)}.md, with the current date when the published date
\* does not parse.
C15_ExamplePathSlugDomain ==
    \A k \in 1..Len(export_calls) :
        LET c == export_calls[k]
        IN  c.path # NoPath =>
                /\ PathShape(c.article, c.path)
                /\ Range(c.path[2]) \subseteq SlugChars
                /\ c.article = XHello =>
                      c.path = <<"data", <<"w", "w", "w", "-", "e", "x", "a", "m", "p", "l", "e", "-", "c", "o", "m">>, <<"2", "0", "2", "4">>, <<"0", "3">>, <<"2", "0", "2", "4", "-", "0", "3", "-", "0", "5", "_", "h", "e", "l", "l", "o", "-", "w", "o", "r", "l", "d", ".", "m", "d">>>>
                /\ c.article = XBoundary =>
                      c.path = <<"data", <<"e", "x", "a", "m", "p", "l", "e", "-", "c", "o", "m">>, <<"2", "0", "2", "6">>, <<"0", "1">>, <<"2", "0", "2", "6", "-", "0", "1", "-", "1", "5", "_", "a", "-", "b", "-", "c", ".", "m", "d">>>>
                /\ c.article = XBare =>
                      c.path = <<"data", <<"u", "n", "k", "n", "o", "w", "n">>, <<"2", "0", "2", "6">>, <<"0", "1">>, <<"2", "0", "2", "6", "-", "0", "1", "-", "1", "5", "_", "u", "n", "t", "i", "t", "l", "e", "d", ".", "m", "d">>>>

\* C15 witness: the article of the example was exported.
C15_Witness ==
    /\ pc = "ExportDone"
    /\ \E k \in 1..Len(export_calls) :
          /\ export_calls[k].article = XHello
          /\ export_calls[k].path # NoPath
          /\ \E f \in files : f.path = export_calls[k].path /\ f.body = 900

\* C16: when a run of main completes, every article that was new for a sink
\* and whose body text has 800 characters or more has a markdown file under
\* the base path.
C16_NewArticlesExported ==
    pc = "Done" =>
        \A a \in Range(new_articles_for_gsheet) \cup Range(new_articles_for_supabase) :
            Body(a) >= 800 => \E f \in files : f.url = a.url

\* the entries of a feed that have a title and a link
WithTitleAndLink(entries) ==
    SelectSeq(entries, LAMBDA e : Strip(e.title) # <<>> /\ Strip(e.link) # <<>>)

\* one article for each such entry, in entry order: the summary of the
\* entry, and the full content of its page only if the feed asks for it and
\* the page could be extracted
ArticlesExpected(feed) ==
    LET kept == WithTitleAndLink(feed.entries)
    IN  [k \in 1..Len(kept) |->
            [title |-> Strip(kept[k].title),
             url |-> Strip(kept[k].link),
             summary |-> kept[k].summary,
             full_content |->
                 IF feed.extract_articles \in {"true", "True", "TRUE"}
                       /\ kept[k].page # <<>>
                 THEN kept[k].page[1] ELSE None,
             published_date |-> kept[k].published_date]]

\* C17: a page whose extraction fails aborts neither its feed nor the run:
\* the article of the entry is returned by fetch_feeds with no full content
\* and with its summary, and the entries after it are processed.
C17_ExtractionFailureKeepsArticle ==
    pc = "FetchDone" =>
        fetched_articles =
            Flatten([i \in 1..Len(rss_feeds) |->
                        IF i \in FailedFeeds THEN <<>>
                        ELSE ArticlesExpected(rss_feeds[i])])

\* C17 witness: in a feed that asks for full content the page of the first
\* entry could not be extracted; its article is returned without full
\* content, followed by the article of the second entry with its content.
C17_Witness ==
    /\ pc = "FetchDone"
    /\ Len(rss_feeds) = 1 /\ FailedFeeds = {}
    /\ rss_feeds[1].extract_articles = "True"
    /\ rss_feeds[1].entries = <<EntryB, EntryA>>
    /\ Len(fetched_articles) = 2
    /\ fetched_articles[1].url = UB
    /\ fetched_articles[1].full_content = None
    /\ fetched_articles[1].summary = EntryB.summary
    /\ fetched_articles[2].full_content = 900

\* the paths of the calls of export_article that wrote a file and returned
\* its path, in order
PathsWritten ==
    LET done == SelectSeq(export_calls, LAMBDA c : c.path # NoPath)
    IN  [k \in 1..Len(done) |-> done[k].path]

\* C18: export_articles calls export_article for every article of the list,
\* whatever an earlier call raised, and returns one path for each article
\* whose file was written, in order, with no entry for an article that was
\* skipped as too short or whose export raised.
C18_ExportedPathsAreWrittenFiles ==
    pc = "ExportDone" =>
        /\ Len(export_calls) = Len(export_queue)
        /\ exported_paths = PathsWritten

\* C19: in the row main appends to the sheet for a new article the
\* has_full_content cell is "Yes" exactly when the article has a full
\* content that is not empty, and "No" otherwise; it agrees with the
\* has_full_content boolean of the row the same run inserts into the
\* database for that article.
C19_SheetCellAgreesWithDb ==
    \A k \in 1..Len(gsheet_write.appended) :
        LET a == new_articles_for_gsheet[k]
            cell == gsheet_write.appended[k][HasFullContentCol]
        IN  /\ cell \in {"Yes", "No"}
            /\ cell = "Yes" <=> (a.full_content # None /\ a.full_content # 0)
            /\ \A r \in table \ table0 :
                  r.url = a.url => (r.has_full_content <=> cell = "Yes")

\* C20: add_articles neither rolls back nor resumes.  When the k-th insert
\* of a batch raises an error other than a duplicate, the articles before
\* it stay in the table, the articles after it are never attempted and the
\* error ends the run; a later run that completes with the same fetched
\* articles leaves every one of them in the table, inserting those that
\* were missing and no row for a url already stored.
C20_NoRollbackNoResume ==
    /\ supabase_write.raised =>
          LET w == supabase_write
              k == Len(w.attempted)
              batch == UrlsOf(new_articles_for_supabase)
          IN  /\ k >= 1 /\ w.attempted = SubSeq(batch, 1, k)
              /\ ~SaysDuplicate(w.error)
              /\ \A i \in 1..(k - 1) : batch[i] \in TableUrls(table)
              /\ table0 \subseteq table
              /\ Len(w.inserted) + w.skipped = k - 1
              /\ TableUrls(table) \ TableUrls(table0) = Range(w.inserted)
              /\ Range(w.inserted) \subseteq Range(SubSeq(batch, 1, k - 1))
              /\ pc = "Failed"
    /\ (pc = "Done" /\ prev.ended = "Failed" /\ prev.fetched = fetched_articles) =>
          /\ Range(UrlsOf(fetched_articles)) \subseteq TableUrls(table)
          /\ Range(supabase_write.inserted) =
                Range(UrlsOf(fetched_articles)) \ TableUrls(table0)
          /\ Len(supabase_write.inserted) = Cardinality(Range(supabase_write.inserted))
          /\ table0 \subseteq table
          /\ \A r, q \in table : r.url = q.url => r = q

\* C20 witness: the run before failed after it had inserted one of the two
\* fetched articles; this run fetched the same two, inserted the missing
\* one and completed.
C20_Witness ==
    /\ pc = "Done" /\ prev.ended = "Failed"
    /\ prev.fetched = fetched_articles
    /\ Cardinality(Range(UrlsOf(fetched_articles))) = 2
    /\ Cardinality(table0) = 1
    /\ TableUrls(table0) \subseteq Range(UrlsOf(fetched_articles))
    /\ Len(supabase_write.inserted) = 1
    /\ Cardinality(table) = 2
====
